---------------------------- MODULE Spec2Model ----------------------------
(***************************************************************************)
(* A model of util/Trinity_gene_splice_modeler.py: the Trinity FASTA       *)
(* reader, the per-record gene grouping, the path decoder, the node        *)
(* registry, the single-row node alignments, the similarity matrix and the *)
(* driver loop of main().                                                  *)
(*                                                                         *)
(* Text is modelled as a sequence of one-character strings, so the regular *)
(* expressions, str.split, int(), str() and slicing of the source are      *)
(* operators that work character by character.  Python objects (Node) live *)
(* in a heap, a sequence of records; an object is its index in the heap.   *)
(***************************************************************************)
EXTENDS Integers, Sequences, FiniteSets, TLC

VARIABLES
    fh,                            \* the input file: a sequence of lines
    lineno,                        \* index of the next line `for line in fh` yields
    header,                        \* Trinity_fasta_parser.__init__: local header
    sequence,                      \* Trinity_fasta_parser.__init__: local sequence
    trinity_gene_to_isoform_seqs,  \* defaultdict(list): gene id -> list of iso_struct
    pc,                            \* position of the program
    exc,                           \* the exception that ended the run, or NoExc
    heap,                          \* every Node object constructed, in order
    node_cache,                    \* Node.node_cache: node id -> Node
    pending,                       \* genes `for gene_name in ...` has yet to yield
    gene_name,                     \* main: gene_name
    iso_struct_list,               \* main: iso_struct_list
    node_path_obj_list,            \* main: node_path_obj_list
    output,                        \* one entry per Gene_splice_modeler constructed
    call,                          \* the last direct call: arguments and result
    given                          \* the token lists the path strings were written from

vars == << fh, lineno, header, sequence, trinity_gene_to_isoform_seqs, pc, exc,
           heap, node_cache, pending, gene_name, iso_struct_list,
           node_path_obj_list, output, call, given >>

---------------------------------------------------------------------------
(* Bounds of the model.                                                    *)

MaxLines == 5
MaxRecords == 4
MaxIsoforms == 3
MaxTokens == 2
MaxEntries == 3
MaxCalls == 2

---------------------------------------------------------------------------
(* Characters and the built-in text functions of Python the source uses.   *)

DigitChars == << "0", "1", "2", "3", "4", "5", "6", "7", "8", "9" >>

IsDigit(c) == \E d \in 1..10 : DigitChars[d] = c

IsSpace(c) == c \in { " ", "\t", "\n" }

DigitValue(c) == (CHOOSE d \in 1..10 : DigitChars[d] = c) - 1

RECURSIVE int(_)
int(s) ==
    IF s = << >> THEN 0
    ELSE 10 * int(SubSeq(s, 1, Len(s) - 1)) + DigitValue(s[Len(s)])

RECURSIVE str(_)
str(n) ==
    IF n < 10 THEN << DigitChars[n + 1] >>
    ELSE str(n \div 10) \o << DigitChars[(n % 10) + 1] >>

RECURSIVE rstrip(_)
rstrip(s) ==
    IF s # << >> /\ IsSpace(s[Len(s)])
    THEN rstrip(SubSeq(s, 1, Len(s) - 1))
    ELSE s

Min(a, b) == IF a < b THEN a ELSE b

\* s[lo:hi] for non-negative lo and hi: both ends are clipped to len(s)
PySlice(s, lo, hi) == SubSeq(s, Min(lo, Len(s)) + 1, Min(hi, Len(s)))

\* index of the first occurrence of character c in s, 0 when there is none
IndexOf(s, c) ==
    IF \E k \in 1..Len(s) : s[k] = c
    THEN CHOOSE k \in 1..Len(s) : s[k] = c /\ \A m \in 1..(k - 1) : s[m] # c
    ELSE 0

\* s.split(c) of a string that holds c once: the part before and the part after
split(s, c) ==
    << SubSeq(s, 1, IndexOf(s, c) - 1), SubSeq(s, IndexOf(s, c) + 1, Len(s)) >>

\* sep.join(parts)
RECURSIVE join(_, _)
join(sep, parts) ==
    IF parts = << >> THEN << >>
    ELSE IF Len(parts) = 1 THEN parts[1]
    ELSE parts[1] \o sep \o join(sep, Tail(parts))

\* last index of the longest run of digits that starts at p (p - 1: no digit at p)
RECURSIVE DigitRunEnd(_, _)
DigitRunEnd(s, p) ==
    IF p <= Len(s) /\ IsDigit(s[p]) THEN DigitRunEnd(s, p + 1) ELSE p - 1

\* last index of the longest run of characters other than c that starts at p
RECURSIVE RunEndNot(_, _, _)
RunEndNot(s, p, c) ==
    IF p <= Len(s) /\ s[p] # c THEN RunEndNot(s, p + 1, c) ELSE p - 1

\* last index of the longest run of non-space characters that starts at p
RECURSIVE NonSpaceRunEnd(_, _)
NonSpaceRunEnd(s, p) ==
    IF p <= Len(s) /\ ~IsSpace(s[p]) THEN NonSpaceRunEnd(s, p + 1) ELSE p - 1

HasAt(s, p, lit) ==
    /\ p + Len(lit) - 1 <= Len(s)
    /\ \A k \in 1..Len(lit) : s[p + k - 1] = lit[k]

---------------------------------------------------------------------------
(* Exceptions.  The source raises through the names RuntimeException and   *)
(* RuntimeExcpetion, which no statement of the module and no built-in      *)
(* binds, and calls get_node_id and node_cache as bare names inside a      *)
(* method: looking such a name up raises NameError.                        *)

NoExc == [ type |-> "none", line |-> 0 ]

NameError(line) == [ type |-> "NameError", line |-> line ]

IndexError(line) == [ type |-> "IndexError", line |-> line ]

\* the names bound at module level: the imports, logger, the classes and main
ModuleNames ==
    { "absolute_import", "division", "print_function", "unicode_literals",
      "os", "sys", "re", "logging", "argparse", "collections", "numpy",
      "logger", "Node", "Node_path", "Trinity_fasta_parser", "Node_alignment",
      "Gene_splice_modeler", "main" }

\* the same step under a handler that reports the exception and goes on
propagate_caught(e, next) == next

\* main() calls the parser and the modeler with no try statement around them:
\* an exception leaves main and ends the process, otherwise the program goes on
propagate_uncaught(e, next) == IF e = NoExc THEN next ELSE "raised"

---------------------------------------------------------------------------
(* class Node                                                              *)

GAP == 0

Node(transcript_name, loc_node_id, node_seq) ==
    [ transcript_name |-> transcript_name,
      loc_node_id     |-> loc_node_id,
      seq             |-> node_seq,
      len             |-> Len(node_seq),
      prev            |-> {},
      next            |-> {} ]

get_node_id(transcript_name, loc_node_id, node_seq) ==
    join(<< ":", ":" >>, << transcript_name, loc_node_id, str(Len(node_seq)) >>)

\* Node.get_node on heap h and cache c: the heap and cache after the call, the
\* Node returned (GAP when it raised) and the exception raised
get_node(h, c, transcript_name, loc_node_id, node_seq) ==
    IF "get_node_id" \notin ModuleNames
    THEN [ heap |-> h, cache |-> c, node |-> GAP, exc |-> NameError(32) ]
    ELSE LET node_id == get_node_id(transcript_name, loc_node_id, node_seq) IN
         IF "node_cache" \notin ModuleNames
         THEN [ heap |-> h, cache |-> c, node |-> GAP, exc |-> NameError(33) ]
         ELSE IF node_id \in DOMAIN c
         THEN IF h[c[node_id]].seq # node_seq
              THEN [ heap |-> h, cache |-> c, node |-> GAP, exc |-> NameError(36) ]
              ELSE [ heap |-> h, cache |-> c, node |-> c[node_id], exc |-> NoExc ]
         ELSE [ heap  |-> Append(h, Node(transcript_name, loc_node_id, node_seq)),
                cache |-> (node_id :> (Len(h) + 1)) @@ c,
                node  |-> Len(h) + 1,
                exc   |-> NoExc ]

---------------------------------------------------------------------------
(* class Node_path                                                         *)

\* end of the match of \d+:\d+\-\d+ that starts at p, 0 when none starts there
MatchNodeDescr(s, p) ==
    LET a == DigitRunEnd(s, p) IN
    IF a < p \/ ~HasAt(s, a + 1, << ":" >>) THEN 0
    ELSE LET b == DigitRunEnd(s, a + 2) IN
         IF b < a + 2 \/ ~HasAt(s, b + 1, << "-" >>) THEN 0
         ELSE LET e == DigitRunEnd(s, b + 2) IN
              IF e < b + 2 THEN 0 ELSE e

\* re.findall("\d+:\d+\-\d+", s), scanning from index p
RECURSIVE findall_node_descr(_, _)
findall_node_descr(s, p) ==
    IF p > Len(s) THEN << >>
    ELSE LET e == MatchNodeDescr(s, p) IN
         IF e = 0 THEN findall_node_descr(s, p + 1)
         ELSE << SubSeq(s, p, e) >> \o findall_node_descr(s, e + 1)

\* sequence[lend:rend+1]
node_seq_slice_short(seq, lend, rend) == PySlice(seq, lend, rend)

node_seq_slice(seq, lend, rend) == PySlice(seq, lend, rend + 1)

\* the Node the loop body builds from one node_descr
node_of_descr(transcript_name, node_descr, seq) ==
    LET loc_node_id      == split(node_descr, ":")[1]
        node_coord_range == split(node_descr, ":")[2]
        lend == int(split(node_coord_range, "-")[1])
        rend == int(split(node_coord_range, "-")[2])
    IN  Node(transcript_name, loc_node_id, node_seq_slice(seq, lend, rend))

\* Node_path(transcript_name, path_string, sequence) on heap h: the heap after
\* the constructor and the object built
Node_path(h, transcript_name, path_string, seq) ==
    LET node_descr_list == findall_node_descr(path_string, 1)
        created == [ k \in 1..Len(node_descr_list) |->
                        node_of_descr(transcript_name, node_descr_list[k], seq) ]
    IN  [ heap |-> h \o created,
          obj  |-> [ transcript_name |-> transcript_name,
                     node_obj_list   |-> [ k \in 1..Len(node_descr_list) |-> Len(h) + k ] ] ]

get_path(path_obj) == path_obj.node_obj_list

---------------------------------------------------------------------------
(* class Trinity_fasta_parser                                              *)

\* re.search("^>(\S+)", header): whether it matches, and group(1)
search_accession(hdr) ==
    IF HasAt(hdr, 1, << ">" >>) /\ NonSpaceRunEnd(hdr, 2) >= 2
    THEN [ ok |-> TRUE, group |-> SubSeq(hdr, 2, NonSpaceRunEnd(hdr, 2)) ]
    ELSE [ ok |-> FALSE, group |-> << >> ]

PathOpen == << "p", "a", "t", "h", "=", "[" >>

PathMatchAt(hdr, p) ==
    /\ HasAt(hdr, p, PathOpen)
    /\ RunEndNot(hdr, p + 6, "]") >= p + 6
    /\ RunEndNot(hdr, p + 6, "]") < Len(hdr)

\* re.search("path=\[([^\]]+)\]", header): whether it matches, and group(1)
search_path(hdr) ==
    IF \E p \in 1..Len(hdr) : PathMatchAt(hdr, p)
    THEN LET p == CHOOSE q \in 1..Len(hdr) :
                      PathMatchAt(hdr, q) /\ \A r \in 1..(q - 1) : ~PathMatchAt(hdr, r)
         IN  [ ok |-> TRUE, group |-> SubSeq(hdr, p + 6, RunEndNot(hdr, p + 6, "]")) ]
    ELSE [ ok |-> FALSE, group |-> << >> ]

IsoSuffixAt(acc, p) ==
    /\ HasAt(acc, p, << "_", "i" >>)
    /\ p + 2 <= Len(acc)
    /\ DigitRunEnd(acc, p + 2) = Len(acc)

\* the same substitution with \d* in place of \d+
sub_isoform_suffix_star(acc) ==
    IF \E p \in 1..Len(acc) :
           HasAt(acc, p, << "_", "i" >>) /\ DigitRunEnd(acc, p + 2) = Len(acc)
    THEN SubSeq(acc, 1,
                (CHOOSE p \in 1..Len(acc) :
                     HasAt(acc, p, << "_", "i" >>) /\ DigitRunEnd(acc, p + 2) = Len(acc)) - 1)
    ELSE acc

\* re.sub("_i\d+$", "", accession)
sub_isoform_suffix(acc) ==
    IF \E p \in 1..Len(acc) : IsoSuffixAt(acc, p)
    THEN SubSeq(acc, 1, (CHOOSE p \in 1..Len(acc) : IsoSuffixAt(acc, p)) - 1)
    ELSE acc

\* add_trinity_seq_entry(header, sequence) on dictionary d: the dictionary after
\* the call and the exception raised
add_trinity_seq_entry(d, hdr, seq) ==
    LET m1 == search_accession(hdr)
        m2 == search_path(hdr)
        accession == m1.group
        path_str  == m2.group
        gene_id   == sub_isoform_suffix(accession)
        isoform_list == IF gene_id \in DOMAIN d THEN d[gene_id] ELSE << >>
        iso_struct == [ transcript_name |-> accession,
                        path            |-> path_str,
                        seq             |-> seq ]
    IN  IF ~m1.ok THEN [ dict |-> d, exc |-> NameError(152) ]
        ELSE IF ~m2.ok THEN [ dict |-> d, exc |-> NameError(157) ]
        ELSE IF gene_id = accession THEN [ dict |-> d, exc |-> NameError(164) ]
        ELSE [ dict |-> (gene_id :> Append(isoform_list, iso_struct)) @@ d,
               exc  |-> NoExc ]

\* sequence += line
append_line_overwrite(seq, line) == line

append_line(seq, line) == seq \o line

\* one turn of `for line in fh`
ReadLine ==
    /\ pc = "reading"
    /\ lineno <= Len(fh)
    /\ LET line == rstrip(fh[lineno]) IN
       IF line = << >>
       THEN /\ exc' = IndexError(123)
            /\ pc' = propagate_uncaught(IndexError(123), "reading")
            /\ UNCHANGED << header, sequence, trinity_gene_to_isoform_seqs >>
       ELSE IF line[1] = ">"
       THEN LET r == IF header # << >> /\ sequence # << >>
                     THEN add_trinity_seq_entry(trinity_gene_to_isoform_seqs, header, sequence)
                     ELSE [ dict |-> trinity_gene_to_isoform_seqs, exc |-> NoExc ]
            IN  /\ trinity_gene_to_isoform_seqs' = r.dict
                /\ exc' = r.exc
                /\ pc' = propagate_uncaught(r.exc, "reading")
                /\ IF r.exc = NoExc
                   THEN header' = line /\ sequence' = << >>
                   ELSE UNCHANGED << header, sequence >>
       ELSE /\ sequence' = append_line(sequence, line)
            /\ UNCHANGED << header, trinity_gene_to_isoform_seqs, pc, exc >>
    /\ lineno' = lineno + 1
    /\ UNCHANGED << fh, heap, node_cache, pending, gene_name, iso_struct_list,
                    node_path_obj_list, output, call, given >>

\* the file is exhausted: the last entry, then main starts its loop over the genes
EndOfFile ==
    /\ pc = "reading"
    /\ lineno > Len(fh)
    /\ LET r == IF sequence # << >>
                THEN add_trinity_seq_entry(trinity_gene_to_isoform_seqs, header, sequence)
                ELSE [ dict |-> trinity_gene_to_isoform_seqs, exc |-> NoExc ]
       IN  /\ trinity_gene_to_isoform_seqs' = r.dict
           /\ exc' = r.exc
           /\ pc' = propagate_uncaught(r.exc, "loop")
           /\ pending' = IF r.exc = NoExc THEN DOMAIN r.dict ELSE pending
    /\ UNCHANGED << fh, lineno, header, sequence, heap, node_cache, gene_name,
                    iso_struct_list, node_path_obj_list, output, call, given >>

---------------------------------------------------------------------------
(* class Node_alignment                                                    *)

get_single_seq_node_alignment(transcript_name, path_obj) ==
    [ transcript_names |-> << transcript_name >>,
      aligned_nodes    |-> << get_path(path_obj) >> ]

\* __len__: the number of transcripts
len(align_obj) == Len(align_obj.transcript_names)

width(align_obj) == Len(align_obj.aligned_nodes[1])

get_node_set(align_obj) ==
    { align_obj.aligned_nodes[align_num][align_pos] :
          << align_num, align_pos >> \in
              (1..len(align_obj)) \X (1..width(align_obj)) } \ { GAP }

\* the same projection, keeping the Node objects instead of their locus ids
get_node_loc_ids_objects(h, node_set) == node_set

get_node_loc_ids(h, node_set) == { h[node].loc_node_id : node \in node_set }

\* the same computation with set.union in place of set.intersection
compute_number_common_nodes_union(h, align_A, align_B) ==
    get_node_loc_ids(h, get_node_set(align_A))
        \cup get_node_loc_ids(h, get_node_set(align_B))

compute_number_common_nodes(h, align_A, align_B) ==
    get_node_loc_ids(h, get_node_set(align_A))
        \cap get_node_loc_ids(h, get_node_set(align_B))

---------------------------------------------------------------------------
(* class Gene_splice_modeler                                               *)

\* numpy.zeros((n, n)), indexed from 0 as in the source
zeros(n) == [ i \in 0..(n - 1) |-> [ j \in 0..(n - 1) |-> 0 ] ]

\* the same assignment without the mirrored cell
set_cells_upper_only(m, i, j, v) == [ m EXCEPT ![i][j] = v ]

\* sim_matrix[i][j] = v; sim_matrix[j][i] = v
set_cells(m, i, j, v) == [ m EXCEPT ![i][j] = v, ![j][i] = v ]

\* for j in range(i+1, num_alignments), from j on
RECURSIVE inner_loop(_, _, _, _, _)
inner_loop(h, alignments_list, m, i, j) ==
    IF j >= Len(alignments_list) THEN m
    ELSE inner_loop(h, alignments_list,
                    set_cells(m, i, j,
                              Cardinality(compute_number_common_nodes(
                                  h, alignments_list[i + 1], alignments_list[j + 1]))),
                    i, j + 1)

\* for i in range(0, num_alignments-1), from i on
RECURSIVE outer_loop(_, _, _, _)
outer_loop(h, alignments_list, m, i) ==
    IF i >= Len(alignments_list) - 1 THEN m
    ELSE outer_loop(h, alignments_list,
                    inner_loop(h, alignments_list, m, i, i + 1), i + 1)

compute_similarity_matrix(h, alignments_list) ==
    outer_loop(h, alignments_list, zeros(Len(alignments_list)), 0)

\* Gene_splice_modeler(node_path_obj_list): the alignments it keeps and the
\* matrix it prints
Gene_splice_modeler(h, path_list) ==
    LET alignments == [ k \in 1..Len(path_list) |->
                          get_single_seq_node_alignment(
                              path_list[k].transcript_name, path_list[k]) ]
    IN  [ alignments        |-> alignments,
          similarity_matrix |-> compute_similarity_matrix(h, alignments) ]

---------------------------------------------------------------------------
(* main()                                                                  *)

\* the same test with the threshold off by one
only_want_alt_splice_off_by_one(isoforms) == Len(isoforms) < 1

\* if len(iso_struct_list) < 2: continue
only_want_alt_splice(isoforms) == Len(isoforms) < 2

\* `for gene_name in gene_to_isoform_info` yields the next gene: a dictionary
\* fixes no order, any gene not yet yielded may come next
NextGene ==
    /\ pc = "loop"
    /\ \E g \in pending :
          /\ gene_name' = g
          /\ iso_struct_list' = trinity_gene_to_isoform_seqs[g]
          /\ pending' = pending \ { g }
          /\ pc' = IF only_want_alt_splice(trinity_gene_to_isoform_seqs[g])
                   THEN "loop" ELSE "paths"
          /\ node_path_obj_list' =
                 IF only_want_alt_splice(trinity_gene_to_isoform_seqs[g])
                 THEN node_path_obj_list ELSE << >>
    /\ UNCHANGED << fh, lineno, header, sequence, trinity_gene_to_isoform_seqs,
                    exc, heap, node_cache, output, call, given >>

\* one turn of `for iso_struct in iso_struct_list`
DecodeIsoform ==
    /\ pc = "paths"
    /\ Len(node_path_obj_list) < Len(iso_struct_list)
    /\ LET iso_struct == iso_struct_list[Len(node_path_obj_list) + 1]
           r == Node_path(heap, iso_struct.transcript_name, iso_struct.path,
                          iso_struct.seq)
       IN  /\ heap' = r.heap
           /\ node_path_obj_list' = Append(node_path_obj_list, r.obj)
    /\ UNCHANGED << fh, lineno, header, sequence, trinity_gene_to_isoform_seqs,
                    pc, exc, node_cache, pending, gene_name, iso_struct_list,
                    output, call, given >>

\* logger.info("Processing Gene: ..."), then Gene_splice_modeler(node_path_obj_list)
ModelGene ==
    /\ pc = "paths"
    /\ Len(node_path_obj_list) = Len(iso_struct_list)
    /\ LET gsm == Gene_splice_modeler(heap, node_path_obj_list) IN
       output' = Append(output, [ gene              |-> gene_name,
                                  num_isoforms      |-> Len(node_path_obj_list),
                                  alignments        |-> gsm.alignments,
                                  similarity_matrix |-> gsm.similarity_matrix ])
    /\ pc' = "loop"
    /\ UNCHANGED << fh, lineno, header, sequence, trinity_gene_to_isoform_seqs,
                    exc, heap, node_cache, pending, gene_name, iso_struct_list,
                    node_path_obj_list, call, given >>

\* sys.exit(0)
Exit ==
    /\ pc = "loop"
    /\ pending = {}
    /\ pc' = "done"
    /\ UNCHANGED << fh, lineno, header, sequence, trinity_gene_to_isoform_seqs,
                    exc, heap, node_cache, pending, gene_name, iso_struct_list,
                    node_path_obj_list, output, call, given >>

---------------------------------------------------------------------------
(* Inputs.                                                                 *)

SeqsUpTo(S, n) == UNION { [ 1..k -> S ] : k \in 0..n }

RECURSIVE Flatten(_)
Flatten(ss) == IF ss = << >> THEN << >> ELSE ss[1] \o Flatten(Tail(ss))

Token(loc, lend, rend) == [ loc |-> loc, lend |-> lend, rend |-> rend ]

\* a path token as Trinity writes it: LOC:START-END
FormatToken(t) == t.loc \o << ":" >> \o str(t.lend) \o << "-" >> \o str(t.rend)

FormatPath(toks, sep) ==
    join(sep, [ k \in 1..Len(toks) |-> FormatToken(toks[k]) ])

\* a header line: >ACCESSION, a blank, the annotation, the line end
HeaderLine(acc, ann) == << ">" >> \o acc \o << " " >> \o ann \o << "\n" >>

PathAnn(path) == PathOpen \o path \o << "]" >>

Blank == << " " >>

Acc_G_i1 == << "G", "_", "i", "1" >>
Acc_G_i2 == << "G", "_", "i", "2" >>
Acc_H_i1 == << "H", "_", "i", "1" >>
Acc_H_i2 == << "H", "_", "i", "2" >>
Acc_H == << "H" >>
Acc_G == << "G" >>
Acc_G_i == << "G", "_", "i" >>
Acc_G_i1x == << "G", "_", "i", "1", "x" >>
Acc_G_i1_i2 == << "G", "_", "i", "1", "_", "i", "2" >>
Acc_G_i10 == << "G", "_", "i", "1", "0" >>
Acc_Gi1 == << "G", "i", "1" >>

Toks_a == << Token(<< "1" >>, 0, 1), Token(<< "2" >>, 2, 3) >>
Toks_b == << Token(<< "1" >>, 0, 1), Token(<< "3" >>, 2, 3) >>
Toks_h == << Token(<< "7" >>, 0, 3) >>
Toks_r == << Token(<< "2" >>, 0, 0), Token(<< "5" >>, 1, 1), Token(<< "2" >>, 2, 2) >>

Seq_ACGT == << "A", "C", "G", "T" >>
Seq_ACTT == << "A", "C", "T", "T" >>
Seq_long == << "A", "C", "G", "T", "T", "G", "C", "A", "G", "G", "A", "T" >>
Seq_short == << "C", "A", "G" >>

LenAnn == << "l", "e", "n", "=", "4" >>

\* the records the input files are written from: a header line and one sequence line
Record(acc, ann, seq) == << HeaderLine(acc, ann), seq \o << "\n" >> >>

RecordCatalogue ==
    { Record(Acc_G_i1, PathAnn(FormatPath(Toks_a, Blank)), Seq_ACGT),
      Record(Acc_G_i2, PathAnn(FormatPath(Toks_b, Blank)), Seq_ACTT),
      Record(Acc_H_i1, PathAnn(FormatPath(Toks_h, Blank)), Seq_ACGT),
      Record(Acc_H,    PathAnn(FormatPath(Toks_h, Blank)), Seq_ACGT),
      Record(Acc_H_i2, LenAnn, Seq_ACGT) }

RecordFiles == { Flatten(recs) : recs \in SeqsUpTo(RecordCatalogue, MaxRecords) }

\* the lines the free-form input files are written from
LineCatalogue ==
    { HeaderLine(Acc_G_i1, PathAnn(FormatPath(Toks_a, Blank))),
      HeaderLine(Acc_G_i2, PathAnn(FormatPath(Toks_b, Blank))),
      << "A", "C", "\n" >>,
      << "G", "T", "\n" >>,
      << "\n" >> }

LineFiles == SeqsUpTo(LineCatalogue, MaxLines)

NoCall == [ op |-> "none", n |-> 0 ]

\* the program started on an input file
Init ==
    /\ fh \in RecordFiles \cup LineFiles
    /\ lineno = 1
    /\ header = << >>
    /\ sequence = << >>
    /\ trinity_gene_to_isoform_seqs = << >>
    /\ pc = "reading"
    /\ exc = NoExc
    /\ heap = << >>
    /\ node_cache = << >>
    /\ pending = {}
    /\ gene_name = << >>
    /\ iso_struct_list = << >>
    /\ node_path_obj_list = << >>
    /\ output = << >>
    /\ call = NoCall
    /\ given = << >>

Next == ReadLine \/ EndOfFile \/ NextGene \/ DecodeIsoform \/ ModelGene \/ Exit

Spec == Init /\ [][Next]_vars

---------------------------------------------------------------------------
(* add_trinity_seq_entry called directly on a fresh parser.                *)

EntryAccessions ==
    { Acc_G_i1, Acc_G_i2, Acc_G_i10, Acc_H_i1, Acc_G, Acc_G_i, Acc_G_i1x,
      Acc_G_i1_i2, Acc_Gi1 }

EntryAnnotations == { PathAnn(FormatPath(Toks_h, Blank)), LenAnn }

InitEntry ==
    /\ fh = << >>
    /\ lineno = 1
    /\ header = << >>
    /\ sequence = << >>
    /\ trinity_gene_to_isoform_seqs = << >>
    /\ pc = "entry"
    /\ exc = NoExc
    /\ heap = << >>
    /\ node_cache = << >>
    /\ pending = {}
    /\ gene_name = << >>
    /\ iso_struct_list = << >>
    /\ node_path_obj_list = << >>
    /\ output = << >>
    /\ call = NoCall
    /\ given = << >>

\* parser.add_trinity_seq_entry(header, sequence); the caller sees the exception
AddEntry ==
    /\ pc = "entry"
    /\ call.n < MaxEntries
    /\ \E acc \in EntryAccessions, ann \in EntryAnnotations :
          LET hdr == rstrip(HeaderLine(acc, ann))
              r   == add_trinity_seq_entry(trinity_gene_to_isoform_seqs, hdr, Seq_ACGT)
          IN  /\ trinity_gene_to_isoform_seqs' = r.dict
              /\ exc' = r.exc
              /\ call' = [ op        |-> "add_trinity_seq_entry",
                           n         |-> call.n + 1,
                           accession |-> acc,
                           has_path  |-> (ann # LenAnn),
                           seq       |-> Seq_ACGT,
                           before    |-> trinity_gene_to_isoform_seqs ]
    /\ UNCHANGED << fh, lineno, header, sequence, pc, heap, node_cache, pending,
                    gene_name, iso_struct_list, node_path_obj_list, output, given >>

NextEntry == AddEntry

SpecEntry == InitEntry /\ [][NextEntry]_vars

---------------------------------------------------------------------------
(* Node.get_node called directly.                                          *)

RegistryTranscripts == { Acc_G_i1, Acc_G_i2 }

RegistryLocIds == { << "1" >>, << "2" >> }

RegistrySeqs == { << "A", "C" >>, << "A", "G" >>, << "A" >> }

InitRegistry ==
    /\ fh = << >>
    /\ lineno = 1
    /\ header = << >>
    /\ sequence = << >>
    /\ trinity_gene_to_isoform_seqs = << >>
    /\ pc = "registry"
    /\ exc = NoExc
    /\ heap = << >>
    /\ node_cache = << >>
    /\ pending = {}
    /\ gene_name = << >>
    /\ iso_struct_list = << >>
    /\ node_path_obj_list = << >>
    /\ output = << >>
    /\ call = [ op |-> "none", n |-> 0, log |-> << >> ]
    /\ given = << >>

\* Node.get_node(transcript_name, loc_node_id, node_seq); the caller sees the exception
GetNode ==
    /\ pc = "registry"
    /\ call.n < MaxCalls
    /\ \E t \in RegistryTranscripts, loc \in RegistryLocIds, s \in RegistrySeqs :
          LET r == get_node(heap, node_cache, t, loc, s) IN
          /\ heap' = r.heap
          /\ node_cache' = r.cache
          /\ exc' = r.exc
          /\ call' = [ op     |-> "get_node",
                       n      |-> call.n + 1,
                       args   |-> << t, loc, s >>,
                       before |-> node_cache,
                       node   |-> r.node,
                       log    |-> Append(call.log, << t, loc, s >>) ]
    /\ UNCHANGED << fh, lineno, header, sequence, trinity_gene_to_isoform_seqs, pc,
                    pending, gene_name, iso_struct_list, node_path_obj_list,
                    output, given >>

NextRegistry == GetNode

SpecRegistry == InitRegistry /\ [][NextRegistry]_vars

---------------------------------------------------------------------------
(* The loop body of main() on one gene's isoform list: the path decoder    *)
(* and the modeler applied to given inputs.                                *)

PathDesc(toks, sep, seq) == [ toks |-> toks, text |-> FormatPath(toks, sep), seq |-> seq ]

\* a path string that holds no LOC:START-END token
NoTokenDesc(text, seq) == [ toks |-> << >>, text |-> text, seq |-> seq ]

NoTokenStrings ==
    { << "x" >>, << "1", ":", "2" >>, << "1", "-", "2", ":", "3" >>,
      << ":", "0", "-", "1" >>, << "1", ":", "-", "2" >>, << "1", ":", " ", "0", "-", "1" >> }

CatalogueDescs ==
    { PathDesc(Toks_a, Blank, Seq_ACGT),
      PathDesc(Toks_b, Blank, Seq_ACTT),
      PathDesc(Toks_r, Blank, Seq_ACGT),
      NoTokenDesc(<< "x" >>, Seq_ACGT) }

WideLocIds == { << "1" >>, << "0", "7" >> }

WideCoords == { 0, 2, 10 }

WideTokens == { Token(loc, a, b) : loc \in WideLocIds, a \in WideCoords, b \in WideCoords }

WideSeparators == { << " " >>, << ",", " " >> }

WideSeqs == { Seq_long, Seq_short }

WideDescs ==
    { PathDesc(toks, sep, seq) :
          toks \in SeqsUpTo(WideTokens, MaxTokens), sep \in WideSeparators, seq \in WideSeqs }
    \cup { NoTokenDesc(text, seq) : text \in NoTokenStrings, seq \in WideSeqs }

ModelInputs == SeqsUpTo(CatalogueDescs, MaxIsoforms) \cup { << d >> : d \in WideDescs }

TranscriptName(k) == << "G", "_", "i" >> \o str(k)

InitModel ==
    /\ fh = << >>
    /\ lineno = 1
    /\ header = << >>
    /\ sequence = << >>
    /\ trinity_gene_to_isoform_seqs = << >>
    /\ pc = "paths"
    /\ exc = NoExc
    /\ heap = << >>
    /\ node_cache = << >>
    /\ pending = {}
    /\ gene_name = << "G" >>
    /\ given \in ModelInputs
    /\ iso_struct_list = [ k \in 1..Len(given) |->
                             [ transcript_name |-> TranscriptName(k),
                               path            |-> given[k].text,
                               seq             |-> given[k].seq ] ]
    /\ node_path_obj_list = << >>
    /\ output = << >>
    /\ call = NoCall

NextModel == DecodeIsoform \/ ModelGene

SpecModel == InitModel /\ [][NextModel]_vars

---------------------------------------------------------------------------
(* What the claims speak of, stated from the inputs.                       *)

Range(f) == { f[k] : k \in DOMAIN f }

\* the locus ids of the tokens isoform k's path string was written from
GivenLocIds(k) == { given[k].toks[t].loc : t \in 1..Len(given[k].toks) }

\* the characters of seq at the zero-based positions lend..rend, rend included
Portion(seq, lend, rend) ==
    LET last == Min(rend, Len(seq) - 1) IN
    IF last < lend THEN << >> ELSE [ k \in 1..(last - lend + 1) |-> seq[lend + k] ]

AllDigits(s, a, b) == \A k \in a..b : IsDigit(s[k])

\* some substring of s reads LOC:START-END, each part one digit or more
HoldsToken(s) ==
    \E c \in 2..Len(s) : \E d \in (c + 2)..Len(s) :
        /\ s[c] = ":"
        /\ s[d] = "-"
        /\ IsDigit(s[c - 1])
        /\ AllDigits(s, c + 1, d - 1)
        /\ d < Len(s)
        /\ IsDigit(s[d + 1])

\* the rows of a matrix are all as long as the matrix is high
IsSquare(m, n) == DOMAIN m = 0..(n - 1) /\ \A i \in 0..(n - 1) : DOMAIN m[i] = 0..(n - 1)

---------------------------------------------------------------------------
(* The claims about the decoder and the modeler, under SpecModel.          *)

\* C1: in every similarity matrix computed, for all i # j the cell M[i][j] is
\* the number of distinct locus ids that occur both among the tokens of isoform
\* i's path and among those of isoform j's path, whatever the transcript names
\* and the sequences are; with no locus id in common it is 0.
C1_CellCountsSharedLocusIds ==
    \A o \in Range(output) :
        \A i \in 0..(o.num_isoforms - 1) : \A j \in 0..(o.num_isoforms - 1) :
            i # j =>
                o.similarity_matrix[i][j]
                    = Cardinality(GivenLocIds(i + 1) \cap GivenLocIds(j + 1))

\* a matrix of three isoforms: one repeats a locus id that another holds once
\* (cell 1), and a pair has no locus id in common (cell 0)
C1_Witness ==
    \E o \in Range(output) :
        /\ o.num_isoforms = 3
        /\ \E i \in 0..2 : \E j \in 0..2 :
              /\ i # j
              /\ given[i + 1].toks = Toks_r
              /\ given[j + 1].toks = Toks_a
              /\ o.similarity_matrix[i][j] = 1
        /\ \E i \in 0..2 : \E j \in 0..2 :
              /\ i # j
              /\ GivenLocIds(i + 1) # {}
              /\ GivenLocIds(j + 1) # {}
              /\ o.similarity_matrix[i][j] = 0

\* C2: every similarity matrix computed from N alignments, N >= 0, is N x N,
\* symmetric and has a zero diagonal.
C2_SquareSymmetricZeroDiagonal ==
    \A o \in Range(output) :
        /\ o.num_isoforms = Len(iso_struct_list)
        /\ IsSquare(o.similarity_matrix, o.num_isoforms)
        /\ \A i \in 0..(o.num_isoforms - 1) :
              /\ o.similarity_matrix[i][i] = 0
              /\ \A j \in 0..(o.num_isoforms - 1) :
                    o.similarity_matrix[i][j] = o.similarity_matrix[j][i]

\* a matrix over isoforms with non-empty node sets that holds a non-zero cell
C2_Witness ==
    \E o \in Range(output) :
        /\ o.num_isoforms >= 2
        /\ \A k \in 1..o.num_isoforms : get_node_set(o.alignments[k]) # {}
        /\ \E i \in 0..(o.num_isoforms - 1) : \E j \in 0..(o.num_isoforms - 1) :
              o.similarity_matrix[i][j] > 0

\* the matrix of an empty list of alignments
C2_WitnessEmpty ==
    \E o \in Range(output) : o.num_isoforms = 0 /\ o.similarity_matrix = << >>

\* C4: a Node is created at most once per identity key (transcript name, locus
\* id, sequence length): two decoded path entries with the same key are the
\* same Node object.
C4_OneNodePerIdentityKey ==
    \A p \in Range(node_path_obj_list) : \A q \in Range(node_path_obj_list) :
        \A m \in Range(get_path(p)) : \A n \in Range(get_path(q)) :
            get_node_id(heap[m].transcript_name, heap[m].loc_node_id, heap[m].seq)
                = get_node_id(heap[n].transcript_name, heap[n].loc_node_id, heap[n].seq)
            => m = n

\* C5: a decoded path has one Node per token of the path string, in the order
\* of the tokens; each Node carries its token's locus id and the characters of
\* the full sequence at the token's positions START..END, so the Node sequences
\* in path order concatenate to the portions the tokens span.
C5_DecodeRoundTrip ==
    \A k \in 1..Len(node_path_obj_list) :
        LET toks  == given[k].toks
            nodes == get_path(node_path_obj_list[k])
        IN  /\ Len(nodes) = Len(toks)
            /\ \A t \in 1..Len(toks) :
                  /\ heap[nodes[t]].loc_node_id = toks[t].loc
                  /\ heap[nodes[t]].transcript_name = iso_struct_list[k].transcript_name
                  /\ heap[nodes[t]].seq = Portion(given[k].seq, toks[t].lend, toks[t].rend)
            /\ Flatten([ t \in 1..Len(nodes) |-> heap[nodes[t]].seq ])
                   = Flatten([ t \in 1..Len(toks) |->
                                 Portion(given[k].seq, toks[t].lend, toks[t].rend) ])

\* a decoded path of two tokens, one with two-digit coordinates and a portion
\* that ends inside the sequence, read from a path string with ", " between tokens
C5_Witness ==
    \E k \in 1..Len(node_path_obj_list) :
        /\ Len(get_path(node_path_obj_list[k])) = 2
        /\ given[k].text = FormatPath(given[k].toks, << ",", " " >>)
        /\ given[k].seq = Seq_long
        /\ given[k].toks[1].loc = << "0", "7" >>
        /\ given[k].toks[2].lend = 2
        /\ given[k].toks[2].rend = 10
        /\ Len(heap[get_path(node_path_obj_list[k])[2]].seq) = 9

\* C9: a path string without any LOC:START-END token decodes, without an
\* exception, to an empty path; its alignment has one row of width 0 and its
\* shared-locus count with every other alignment is 0.
C9_NoTokenPathIsEmpty ==
    /\ exc = NoExc
    /\ \A k \in 1..Len(node_path_obj_list) :
          ~HoldsToken(iso_struct_list[k].path) => get_path(node_path_obj_list[k]) = << >>
    /\ \A o \in Range(output) : \A k \in 1..o.num_isoforms :
          ~HoldsToken(iso_struct_list[k].path) =>
              /\ len(o.alignments[k]) = 1
              /\ Len(o.alignments[k].aligned_nodes) = 1
              /\ width(o.alignments[k]) = 0
              /\ \A j \in 1..o.num_isoforms :
                    /\ compute_number_common_nodes(heap, o.alignments[k], o.alignments[j]) = {}
                    /\ compute_number_common_nodes(heap, o.alignments[j], o.alignments[k]) = {}
                    /\ o.similarity_matrix[k - 1][j - 1] = 0
                    /\ o.similarity_matrix[j - 1][k - 1] = 0

\* a gene with a token-less path string next to a path with nodes, modelled
C9_Witness ==
    \E o \in Range(output) :
        \E k \in 1..o.num_isoforms : \E j \in 1..o.num_isoforms :
            /\ ~HoldsToken(iso_struct_list[k].path)
            /\ iso_struct_list[k].path # << >>
            /\ get_node_set(o.alignments[j]) # {}

---------------------------------------------------------------------------
(* What the claims speak of, stated from the input file and the accessions. *)

\* gene is what is left of accession acc once a trailing _i<digits> is removed
IsGeneOf(gene, acc) ==
    /\ Len(acc) >= Len(gene) + 3
    /\ SubSeq(acc, 1, Len(gene)) = gene
    /\ acc[Len(gene) + 1] = "_"
    /\ acc[Len(gene) + 2] = "i"
    /\ AllDigits(acc, Len(gene) + 3, Len(acc))

Prefixes(acc) == { SubSeq(acc, 1, k) : k \in 0..Len(acc) }

HasIsoSuffix(acc) == \E gene \in Prefixes(acc) : IsGeneOf(gene, acc)

StripIsoSuffix(acc) == CHOOSE gene \in Prefixes(acc) : IsGeneOf(gene, acc)

\* a line of the file without its line end
LineText(l) == IF l # << >> /\ l[Len(l)] = "\n" THEN SubSeq(l, 1, Len(l) - 1) ELSE l

IsHeaderLine(l) == l[1] = ">"

\* the last line of the run of sequence lines that follows line h
RunEnd(h) ==
    CHOOSE e \in h..Len(fh) :
        /\ \A k \in (h + 1)..e : ~IsHeaderLine(fh[k])
        /\ e = Len(fh) \/ IsHeaderLine(fh[e + 1])

\* the header lines that are followed by at least one sequence line
RecordHeaders == { h \in 1..Len(fh) : IsHeaderLine(fh[h]) /\ RunEnd(h) > h }

\* the sequence lines of the record at header line h, concatenated in order
RecordSeq(h) == Flatten([ k \in 1..(RunEnd(h) - h) |-> LineText(fh[h + k]) ])

\* the accession of a header line: what stands between > and the first blank
HeaderAccession(l) == SubSeq(l, 2, IndexOf(l, " ") - 1)

\* the records of gene g in file order, from line h on: << accession, sequence >>
RECURSIVE RecordsOfGene(_, _)
RecordsOfGene(g, h) ==
    IF h > Len(fh) THEN << >>
    ELSE IF h \in RecordHeaders /\ IsGeneOf(g, HeaderAccession(fh[h]))
         THEN << << HeaderAccession(fh[h]), RecordSeq(h) >> >> \o RecordsOfGene(g, h + 1)
         ELSE RecordsOfGene(g, h + 1)

\* the record at header line h is one add_trinity_seq_entry accepts
WellFormed(h) ==
    /\ search_path(LineText(fh[h])).ok
    /\ HasIsoSuffix(HeaderAccession(fh[h]))

\* the genes of the batch with two or more records, none of them failing
BatchMultiGenes ==
    { g \in { StripIsoSuffix(HeaderAccession(fh[h])) :
                  h \in { r \in RecordHeaders : HasIsoSuffix(HeaderAccession(fh[r])) } } :
          /\ Len(RecordsOfGene(g, 1)) >= 2
          /\ \A h \in RecordHeaders :
                IsGeneOf(g, HeaderAccession(fh[h])) => WellFormed(h) }

ParserReturned == pc \in { "loop", "paths", "done" }

---------------------------------------------------------------------------
(* The claims about the reader and the driver, under Spec.                 *)

\* C7: the modeler is run for a gene if and only if the gene has two or more
\* isoform records.  No Node, no path and no matrix is ever built for a gene
\* with one isoform, and when the driver is done every gene with two or more
\* isoforms has exactly one matrix, over all its isoforms in input order.
C7_ModelerOnlyForMultiIsoformGenes ==
    /\ \A n \in Range(heap) :
          \E g \in DOMAIN trinity_gene_to_isoform_seqs :
              /\ Len(trinity_gene_to_isoform_seqs[g]) >= 2
              /\ IsGeneOf(g, n.transcript_name)
    /\ pc = "paths" => Len(trinity_gene_to_isoform_seqs[gene_name]) >= 2
    /\ \A k \in 1..Len(output) :
          LET o == output[k] IN
          /\ o.gene \in DOMAIN trinity_gene_to_isoform_seqs
          /\ Len(trinity_gene_to_isoform_seqs[o.gene]) >= 2
          /\ o.num_isoforms = Len(trinity_gene_to_isoform_seqs[o.gene])
          /\ IsSquare(o.similarity_matrix, o.num_isoforms)
          /\ \A i \in 1..o.num_isoforms :
                o.alignments[i].transcript_names
                    = << trinity_gene_to_isoform_seqs[o.gene][i].transcript_name >>
          /\ \A m \in 1..Len(output) : output[m].gene = o.gene => m = k
    /\ pc = "done" =>
          \A g \in DOMAIN trinity_gene_to_isoform_seqs :
              Len(trinity_gene_to_isoform_seqs[g]) >= 2 =>
                  \E k \in 1..Len(output) : output[k].gene = g

\* the driver is done with a batch that holds a gene of one isoform and a gene
\* of three
C7_Witness ==
    /\ pc = "done"
    /\ \E g \in DOMAIN trinity_gene_to_isoform_seqs :
          Len(trinity_gene_to_isoform_seqs[g]) = 1
    /\ \E k \in 1..Len(output) : output[k].num_isoforms = 3

\* C8 as claimed: once the run has ended, with or without a failed record,
\* every gene of the batch with two or more records and no failing record has
\* its similarity matrix.
C8_FailureIsolatedPerGene ==
    (pc = "done" \/ (pc = "raised" /\ exc.line \in { 152, 157, 164 })) =>
        \A g \in BatchMultiGenes : \E k \in 1..Len(output) : output[k].gene = g

\* C8 as amended: there is no isolation.  Every exception is raised while the
\* file is read, none by the decoder or the modeler; it ends the run, and the
\* run that ends so has decoded no path and computed no matrix for any gene.
C8_FailureEndsTheRun ==
    /\ exc # NoExc <=> pc = "raised"
    /\ exc # NoExc =>
          /\ exc.line \in { 123, 152, 157, 164 }
          /\ output = << >>
          /\ heap = << >>
          /\ node_path_obj_list = << >>
          /\ ~ENABLED Next

\* a run ended by a record that failed, in a batch that holds a gene with two
\* well-formed records
C8_Witness ==
    /\ pc = "raised"
    /\ exc.line \in { 157, 164 }
    /\ BatchMultiGenes # {}

\* C10: when the reader has returned, the isoform lists hold exactly the
\* records of the file that have a sequence line: each gene's list is, in file
\* order, the accessions of the gene's records, each with the concatenation of
\* the sequence lines of its record and of no other.
C10_ReaderKeepsEveryRecord ==
    ParserReturned =>
        /\ \A g \in DOMAIN trinity_gene_to_isoform_seqs :
              [ k \in 1..Len(trinity_gene_to_isoform_seqs[g]) |->
                  << trinity_gene_to_isoform_seqs[g][k].transcript_name,
                     trinity_gene_to_isoform_seqs[g][k].seq >> ]
                  = RecordsOfGene(g, 1)
        /\ \A h \in RecordHeaders :
              \E g \in DOMAIN trinity_gene_to_isoform_seqs :
                  IsGeneOf(g, HeaderAccession(fh[h]))

\* the reader has returned from a file that starts with a sequence line, holds
\* a record of two sequence lines and a header with no sequence line
C10_Witness ==
    /\ ParserReturned
    /\ Len(fh) >= 1
    /\ ~IsHeaderLine(fh[1])
    /\ \E h \in RecordHeaders : RunEnd(h) = h + 2
    /\ \E h \in 1..Len(fh) : IsHeaderLine(fh[h]) /\ h \notin RecordHeaders

\* the reader has returned from a file of two records of one gene
C10_WitnessTwoRecords ==
    /\ ParserReturned
    /\ \E g \in DOMAIN trinity_gene_to_isoform_seqs :
          /\ Len(trinity_gene_to_isoform_seqs[g]) = 2
          /\ trinity_gene_to_isoform_seqs[g][1].seq # trinity_gene_to_isoform_seqs[g][2].seq

---------------------------------------------------------------------------
(* The claim about add_trinity_seq_entry, under SpecEntry.                 *)

\* dictionary d with one more entry at the end of gene's list
WithEntry(d, gene, entry) ==
    [ g \in DOMAIN d \cup { gene } |->
        IF g = gene
        THEN (IF g \in DOMAIN d THEN d[g] ELSE << >>) \o << entry >>
        ELSE d[g] ]

\* C6: the gene id of a record is its accession without the trailing
\* _i<digits>; two records stand in the same isoform list exactly when their
\* accessions without that suffix are equal; a call with an accession that has
\* no such suffix raises and leaves every isoform list as it was, and a call
\* with a well-formed header appends the record to the list of its gene.
C6_GeneIdIsAccessionWithoutSuffix ==
    /\ \A g1 \in DOMAIN trinity_gene_to_isoform_seqs :
          \A k1 \in 1..Len(trinity_gene_to_isoform_seqs[g1]) :
              LET acc1 == trinity_gene_to_isoform_seqs[g1][k1].transcript_name IN
              /\ HasIsoSuffix(acc1)
              /\ g1 = StripIsoSuffix(acc1)
              /\ \A g2 \in DOMAIN trinity_gene_to_isoform_seqs :
                    \A k2 \in 1..Len(trinity_gene_to_isoform_seqs[g2]) :
                        LET acc2 == trinity_gene_to_isoform_seqs[g2][k2].transcript_name IN
                        (g1 = g2) <=> (StripIsoSuffix(acc1) = StripIsoSuffix(acc2))
    /\ call.op = "add_trinity_seq_entry" =>
          IF ~call.has_path
          THEN exc # NoExc /\ trinity_gene_to_isoform_seqs = call.before
          ELSE IF HasIsoSuffix(call.accession)
          THEN /\ exc = NoExc
               /\ trinity_gene_to_isoform_seqs
                      = WithEntry(call.before, StripIsoSuffix(call.accession),
                                  [ transcript_name |-> call.accession,
                                    path            |-> FormatPath(Toks_h, Blank),
                                    seq             |-> call.seq ])
          ELSE /\ exc = NameError(164)
               /\ trinity_gene_to_isoform_seqs = call.before

\* G_i1 and G_i10 stand in the list of gene G, and the call with accession G_i,
\* which has no digit after _i, has just raised
C6_Witness ==
    /\ call.op = "add_trinity_seq_entry"
    /\ call.accession = Acc_G_i
    /\ call.has_path
    /\ exc # NoExc
    /\ << "G" >> \in DOMAIN trinity_gene_to_isoform_seqs
    /\ Len(trinity_gene_to_isoform_seqs[<< "G" >>]) = 2
    /\ trinity_gene_to_isoform_seqs[<< "G" >>][1].transcript_name = Acc_G_i1
    /\ trinity_gene_to_isoform_seqs[<< "G" >>][2].transcript_name = Acc_G_i10

\* a record whose accession ends in two suffixes loses only the last one
C6_WitnessDoubleSuffix ==
    /\ Acc_G_i1 \in DOMAIN trinity_gene_to_isoform_seqs
    /\ trinity_gene_to_isoform_seqs[Acc_G_i1][1].transcript_name = Acc_G_i1_i2

---------------------------------------------------------------------------
(* The claim about Node.get_node, under SpecRegistry.                      *)

\* C3: a call of get_node with a key that is cached returns the Node cached
\* under the key when the sequences are equal and raises when they differ; a
\* call with a new key creates a Node, caches it under the key and returns it.
C3_GetOrCreate ==
    call.op = "get_node" =>
        LET key == get_node_id(call.args[1], call.args[2], call.args[3]) IN
        IF key \in DOMAIN call.before
        THEN IF heap[call.before[key]].seq = call.args[3]
             THEN exc = NoExc /\ call.node = call.before[key] /\ node_cache = call.before
             ELSE exc # NoExc /\ node_cache = call.before
        ELSE /\ exc = NoExc
             /\ call.node # GAP
             /\ key \in DOMAIN node_cache
             /\ node_cache[key] = call.node
             /\ heap[call.node] = Node(call.args[1], call.args[2], call.args[3])

===========================================================================
